---- MODULE Spec2Model ----
(***************************************************************************)
(* Model of main.py, the Streamlit "Interactive Groundwater Level Finder". *)
(*                                                                         *)
(* The script is re-executed from its first line on every interaction.    *)
(* One run is modelled as: Load (lines 11-18, once, cached), Preamble      *)
(* (lines 24-69), then, when a drawing is present, the statements of the   *)
(* try block (lines 73-127) one action each, and the except handler        *)
(* (lines 129-130).  Interactions (a selectbox change, a drawing on the    *)
(* map) start the next run.                                                *)
(*                                                                         *)
(* Angles are whole degrees, multiples of 60, for which the haversine      *)
(* term is an exact rational; distances are whole metres.                  *)
(***************************************************************************)
EXTENDS Integers, Sequences, FiniteSets, TLC

VARIABLES csv, df, level_dtype, pc, state, district, output, geom, centroid,
          min_dist, nearest_row, station_data, csv_data, plot_data, exc, page

vars == <<csv, df, level_dtype, pc, state, district, output, geom, centroid,
          min_dist, nearest_row, station_data, csv_data, plot_data, exc, page>>

(***************************************************************************)
(* Bounds of the model.                                                    *)
(***************************************************************************)
\* Largest number of rows of a CSV file.
MaxRows == 3

(***************************************************************************)
(* Values of the Python run time.                                          *)
(***************************************************************************)
\* A missing float (pandas NaN), as read_csv gives for an empty cell.
NaN == 999

\* A missing timestamp (pandas NaT), as to_datetime(errors='coerce') gives.
NaT == 0

\* float("inf"), the scan's initial minimum.
Inf == 999999999

\* Python's None for nearest_row; a row is otherwise named by its index label.
None == -1

(***************************************************************************)
(* Sequence helpers.                                                       *)
(***************************************************************************)
Range(s) == {s[i] : i \in DOMAIN s}

RECURSIVE SumOver(_, _)
SumOver(S, f) ==
    IF S = {} THEN 0
    ELSE LET x == CHOOSE y \in S : TRUE IN f[x] + SumOver(S \ {x}, f)

(***************************************************************************)
(* The CSV file and load_data.                                             *)
(***************************************************************************)
\* read_csv's float parser on the cells the model uses; a cell outside the
\* table ("dry") is not a number.
ParseFloat ==
    [c \in {"", "0.0", "60.0", "3.0", "5.0"} |->
        CASE c = "" -> NaN
          [] c = "0.0" -> 0
          [] c = "60.0" -> 60
          [] c = "3.0" -> 3
          [] c = "5.0" -> 5]

\* pd.to_datetime(errors='coerce') on one cell: a date as YYYYMMDD, or NaT.
to_datetime(cell) ==
    CASE cell = "2020-01-01" -> 20200101
      [] cell = "2020-01-02" -> 20200102
      [] OTHER -> NaT

\* Series.dt.year.
dt_year(date) == IF date = NaT THEN NaN ELSE date \div 10000

\* read_csv's column type for currentlevel: float64 when every cell parses.
InferDtype(file) ==
    IF \A i \in DOMAIN file : file[i].currentlevel \in DOMAIN ParseFloat
    THEN "float64" ELSE "object"

\* load_data: every row of the file is kept; the date is coerced, the year
\* derived.  The index label of a row is its position, from 0.
load_data(file) ==
    [i \in DOMAIN file |->
        [index |-> i - 1,
         id |-> file[i].id,
         date |-> to_datetime(file[i].date),
         latitude |-> ParseFloat[file[i].latitude],
         longitude |-> ParseFloat[file[i].longitude],
         station_name |-> file[i].station_name,
         district_name |-> file[i].district_name,
         state_name |-> file[i].state_name,
         currentlevel |-> IF InferDtype(file) = "float64"
                          THEN ParseFloat[file[i].currentlevel]
                          ELSE file[i].currentlevel,
         source |-> file[i].source,
         year |-> dt_year(to_datetime(file[i].date))]]

\* The files with at most MaxRows rows, each row's cells one of Cells:
\* <<latitude, longitude, district_name, date, currentlevel>>.
CsvFiles(Cells) ==
    UNION {
        {[i \in 1..n |->
            [id |-> i,
             date |-> f[i][4],
             latitude |-> f[i][1],
             longitude |-> f[i][2],
             station_name |-> "Well " \o f[i][1] \o "/" \o f[i][2],
             district_name |-> f[i][3],
             state_name |-> "Kerala",
             currentlevel |-> f[i][5],
             source |-> "CGWB"]] :
         f \in [1..n -> Cells]}
        : n \in 0..MaxRows}

(***************************************************************************)
(* Selectboxes and map centre (lines 24-34).                               *)
(***************************************************************************)
\* Python's string order on the names the model uses.
SortKey(name) ==
    CASE name = "Idukki" -> 1
      [] name = "Kerala" -> 2
      [] name = "Kollam" -> 3
      [] OTHER -> 4

\* sorted(...)[0], the selectbox's initial value; "" stands for None (no option).
FirstSorted(names) ==
    IF names = {} THEN ""
    ELSE CHOOSE n \in names : \A m \in names : SortKey(n) <= SortKey(m)

States(d) == {d[i].state_name : i \in DOMAIN d}

Districts(d, s) == {d[i].district_name : i \in {j \in DOMAIN d : d[j].state_name = s}}

\* df[(state_name == state) & (district_name == district)]
DistrictRows(d, s, dn) ==
    LET Test(r) == r.state_name = s /\ r.district_name = dn IN SelectSeq(d, Test)

(***************************************************************************)
(* Geometry: shapely's shape() and centroid (lines 74-75).                  *)
(***************************************************************************)
\* A drawing is the GeoJSON ring of a Polygon, as [lon, lat] vertices without
\* the closing repeat of the first.  <<>> is a Polygon with no coordinates.
Next1(ring, i) == IF i = Len(ring) THEN 1 ELSE i + 1

\* x_i * y_{i+1} - x_{i+1} * y_i
Cross(ring, i) ==
    ring[i][1] * ring[Next1(ring, i)][2] - ring[Next1(ring, i)][1] * ring[i][2]

\* Twice the signed area of the ring.
Area2(ring) == SumOver(DOMAIN ring, [i \in DOMAIN ring |-> Cross(ring, i)])

\* Exact quotient with the sign of the divisor normalised.
Quot(a, b) == IF b < 0 THEN (-a) \div (-b) ELSE a \div b

\* The area-weighted centroid on the (x = lon, y = lat) plane, as <<x, y>>.
PolygonCentroid(ring) ==
    <<Quot(SumOver(DOMAIN ring,
               [i \in DOMAIN ring |->
                   (ring[i][1] + ring[Next1(ring, i)][1]) * Cross(ring, i)]),
           3 * Area2(ring)),
      Quot(SumOver(DOMAIN ring,
               [i \in DOMAIN ring |->
                   (ring[i][2] + ring[Next1(ring, i)][2]) * Cross(ring, i)]),
           3 * Area2(ring))>>

\* shape() raises for a ring of 1 or 2 vertices (a linear ring needs 3 and its
\* closing point); with no coordinates it returns the empty polygon.
ShapeRaises(ring) == Len(ring) \in {1, 2}

\* centroid = (geom.centroid.y, geom.centroid.x): latitude first.
CentroidLatLon(ring) == <<PolygonCentroid(ring)[2], PolygonCentroid(ring)[1]>>

\* The drawings the model submits: none, fewer than 3 vertices, two triangles
\* and a rectangle, of non-zero area and with their centroid on the 60-degree
\* grid.
Drawings ==
    { <<>>,
      << <<0, 0>> >>,
      << <<0, 0>>, <<60, 0>> >>,
      << <<60, -60>>, <<0, 0>>, <<120, 60>> >>,
      << <<60, 0>>, <<120, -60>>, <<180, 60>> >>,
      << <<-60, -60>>, <<60, -60>>, <<60, 60>>, <<-60, 60>> >> }

(***************************************************************************)
(* haversine (line 81).                                                    *)
(***************************************************************************)
Abs(x) == IF x < 0 THEN -x ELSE x

\* 4 * sin(d / 2) ** 2 for d a multiple of 60 degrees.
Sin2Half4(d) ==
    CASE Abs(d) % 360 = 0 -> 0
      [] Abs(d) % 360 \in {60, 300} -> 1
      [] Abs(d) % 360 \in {120, 240} -> 3
      [] Abs(d) % 360 = 180 -> 4

\* 2 * cos(lat) for lat in {-60, 0, 60}.
Cos2(lat) == IF lat = 0 THEN 2 ELSE 1

\* 16 * (sin(dlat/2)**2 + cos(lat1) * cos(lat2) * sin(dlng/2)**2)
Hav16(p1, p2) ==
    4 * Sin2Half4(p2[1] - p1[1]) + Cos2(p1[1]) * Cos2(p2[1]) * Sin2Half4(p2[2] - p1[2])

\* 2 * R * asin(sqrt(k / 16)) in metres, R = 6371.0088 km.
GreatCircle ==
    [k \in 0..16 |->
        CASE k = 0 -> 0
          [] k = 1 -> 3219656
          [] k = 2 -> 4604546
          [] k = 3 -> 5706288
          [] k = 4 -> 6671705
          [] k = 5 -> 7558562
          [] k = 6 -> 8397729
          [] k = 7 -> 9209093
          [] k = 8 -> 10007557
          [] k = 9 -> 10806022
          [] k = 10 -> 11617385
          [] k = 11 -> 12456552
          [] k = 12 -> 13343410
          [] k = 13 -> 14308826
          [] k = 14 -> 15410568
          [] k = 15 -> 16795458
          [] k = 16 -> 20015114]

\* haversine(point1, point2) on (lat, lon) pairs; NaN in, NaN out.
haversine(p1, p2) ==
    IF NaN \in {p1[1], p1[2], p2[1], p2[2]} THEN NaN
    ELSE GreatCircle[Hav16(p1, p2)]

(***************************************************************************)
(* The nearest-station scan (lines 78-84).                                 *)
(***************************************************************************)
\* Closer with <= for <: a later row at the same distance replaces the minimum.
CloserOrEqual(dist, min) == dist # NaN /\ min # NaN /\ dist <= min

\* dist < min_dist on floats: false when dist is NaN.
Closer(dist, min) == dist # NaN /\ min # NaN /\ dist < min

\* ScanFrom without line 83: the minimum stays at its initial value.
RECURSIVE ScanFromKeepsMin(_, _, _, _, _)
ScanFromKeepsMin(d, c, i, min, nearest) ==
    IF i > Len(d) THEN <<min, nearest>>
    ELSE IF Closer(haversine(c, <<d[i].latitude, d[i].longitude>>), min)
    THEN ScanFromKeepsMin(d, c, i + 1, min, d[i].index)
    ELSE ScanFromKeepsMin(d, c, i + 1, min, nearest)

\* The loop from row i on, with the minimum and nearest row so far.
RECURSIVE ScanFrom(_, _, _, _, _)
ScanFrom(d, c, i, min, nearest) ==
    IF i > Len(d) THEN <<min, nearest>>
    ELSE IF Closer(haversine(c, <<d[i].latitude, d[i].longitude>>), min)
    THEN ScanFrom(d, c, i + 1,
                  haversine(c, <<d[i].latitude, d[i].longitude>>), d[i].index)
    ELSE ScanFrom(d, c, i + 1, min, nearest)

\* The row whose index label is k.
RowAt(d, k) == d[k + 1]

(***************************************************************************)
(* The station's series (lines 94-105) and the export (line 121).          *)
(***************************************************************************)
\* == on floats: NaN equals nothing, itself included.
FloatEq(a, b) == a # NaN /\ b # NaN /\ a = b

\* StationMask without the longitude test.
StationMaskLatitudeOnly(d, nr) ==
    LET Test(r) == FloatEq(r.latitude, nr.latitude) IN SelectSeq(d, Test)

\* df[(df.latitude == nr.latitude) & (df.longitude == nr.longitude)]
StationMask(d, nr) ==
    LET Test(r) == FloatEq(r.latitude, nr.latitude)
                   /\ FloatEq(r.longitude, nr.longitude)
    IN SelectSeq(d, Test)

\* The order sort_values("date") establishes: ascending, NaT last.
DateLeq(a, b) == b = NaT \/ (a # NaT /\ a <= b)

Arrangements(rows) ==
    {[i \in DOMAIN rows |-> rows[p[i]]] :
        p \in {q \in [DOMAIN rows -> DOMAIN rows] :
                  \A i, j \in DOMAIN rows : q[i] = q[j] => i = j}}

\* sort_values("date") with the default kind, quicksort, which is not a stable
\* sort: every arrangement of the rows in date order is a possible result.
sort_values(rows) ==
    {s \in Arrangements(rows) :
        \A i, j \in DOMAIN s : i < j => DateLeq(s[i].date, s[j].date)}

\* drop(columns=['id', 'latitude', 'longitude', 'source', 'year']); the index
\* labels stay.
drop_columns(rows) ==
    [i \in DOMAIN rows |->
        [index |-> rows[i].index,
         date |-> rows[i].date,
         station_name |-> rows[i].station_name,
         district_name |-> rows[i].district_name,
         state_name |-> rows[i].state_name,
         currentlevel |-> rows[i].currentlevel]]

\* The group keys of groupby('date'): NaT is no key (dropna).
GroupKeys(rows) == {rows[i].date : i \in DOMAIN rows} \ {NaT}

RECURSIVE Ascending(_)
Ascending(K) ==
    IF K = {} THEN <<>>
    ELSE LET m == CHOOSE x \in K : \A y \in K : x <= y
         IN <<m>> \o Ascending(K \ {m})

\* GroupMean with a missing level counted as a level of 0.
GroupMeanNullAsZero(rows, d) ==
    LET S == {i \in DOMAIN rows : rows[i].date = d}
    IN <<SumOver(S, [i \in S |-> IF rows[i].currentlevel = NaN THEN 0
                                 ELSE rows[i].currentlevel]),
         Cardinality(S)>>

\* mean of one group, NaN skipped, as the fraction <<total, count>>; count 0 is
\* NaN, the mean of no value.
GroupMean(rows, d) ==
    LET S == {i \in DOMAIN rows : rows[i].date = d /\ rows[i].currentlevel # NaN}
    IN <<SumOver(S, [i \in S |-> rows[i].currentlevel]), Cardinality(S)>>

\* groupby('date', as_index=False).agg({'currentlevel': 'mean'})
groupby_mean(rows) ==
    LET keys == Ascending(GroupKeys(rows))
    IN [i \in DOMAIN keys |->
           [date |-> keys[i], currentlevel |-> GroupMean(rows, keys[i])]]

\* to_csv's text of a timestamp and of a float; a missing value is empty.
FormatDate(d) ==
    CASE d = 20200101 -> "2020-01-01"
      [] d = 20200102 -> "2020-01-02"
      [] d = NaT -> ""

FormatFloat(x) ==
    CASE x = 3 -> "3.0"
      [] x = 5 -> "5.0"
      [] x = NaN -> ""

\* to_csv(index=False): the rows in order, without the index labels.
to_csv(rows) ==
    [i \in DOMAIN rows |->
        [date |-> FormatDate(rows[i].date),
         station_name |-> rows[i].station_name,
         district_name |-> rows[i].district_name,
         state_name |-> rows[i].state_name,
         currentlevel |-> FormatFloat(rows[i].currentlevel)]]

\* f"{min_dist:.2f}" of a distance in metres: hundredths of a kilometre.
Format2f(metres) == (metres + 5) \div 10

(***************************************************************************)
(* The state machine.                                                      *)
(***************************************************************************)
\* The names of a fresh run of the script.
FreshRun ==
    /\ geom' = <<>>
    /\ centroid' = <<>>
    /\ min_dist' = Inf
    /\ nearest_row' = None
    /\ station_data' = <<>>
    /\ csv_data' = <<>>
    /\ plot_data' = <<>>
    /\ exc' = ""
    /\ page' = <<>>

InitWith(files) ==
    /\ csv \in files
    /\ df = <<>>
    /\ level_dtype = ""
    /\ pc = "load"
    /\ state = ""
    /\ district = ""
    /\ output = <<>>
    /\ geom = <<>>
    /\ centroid = <<>>
    /\ min_dist = Inf
    /\ nearest_row = None
    /\ station_data = <<>>
    /\ csv_data = <<>>
    /\ plot_data = <<>>
    /\ exc = ""
    /\ page = <<>>

\* df = load_data() (line 18).
Load ==
    /\ pc = "load"
    /\ df' = load_data(csv)
    /\ level_dtype' = InferDtype(csv)
    /\ pc' = "preamble"
    /\ UNCHANGED <<csv, state, district, output, geom, centroid, min_dist,
                   nearest_row, station_data, csv_data, plot_data, exc, page>>

\* st.selectbox: the current choice when it is an option, else the first option.
selectbox(choice, options) ==
    IF choice \in options THEN choice ELSE FirstSorted(options)

\* Lines 24-69: the selectboxes, the map centred on the district's first row,
\* the map widget.  iloc[0] of no row (IndexError) and a NaN map centre
\* (ValueError of folium.Map) are not caught: the run stops there.
Preamble ==
    /\ pc = "preamble"
    /\ state' = selectbox(state, States(df))
    /\ district' = selectbox(district, Districts(df, state'))
    /\ LET rows == DistrictRows(df, state', district')
       IN IF rows = <<>>
          THEN /\ page' = <<[kind |-> "exception", data |-> "IndexError"]>>
               /\ pc' = "stopped"
          ELSE IF NaN \in {rows[1].latitude, rows[1].longitude}
          THEN /\ page' = <<[kind |-> "exception", data |-> "ValueError"]>>
               /\ pc' = "stopped"
          ELSE /\ page' = <<>>
               /\ pc' = IF output # <<>> THEN "shape" ELSE "idle"
    /\ UNCHANGED <<csv, df, level_dtype, output, geom, centroid, min_dist,
                   nearest_row, station_data, csv_data, plot_data, exc>>

\* The user picks another state and district: the script runs again, with a
\* new map that holds no drawing.
Select(s, dn) ==
    /\ pc \in {"idle", "done", "stopped"}
    /\ s \in States(df)
    /\ dn \in Districts(df, s)
    /\ <<s, dn>> # <<state, district>>
    /\ state' = s
    /\ district' = dn
    /\ output' = <<>>
    /\ FreshRun
    /\ pc' = "preamble"
    /\ UNCHANGED <<csv, df, level_dtype>>

\* The user draws (or edits) a polygon on the displayed map: the script runs
\* again with it as output["last_active_drawing"].
Draw(ring) ==
    /\ pc \in {"idle", "done"}
    /\ output' = <<ring>>
    /\ FreshRun
    /\ pc' = "preamble"
    /\ UNCHANGED <<csv, df, level_dtype, state, district>>

\* Shape with a shape() that accepts a ring of any length.
ShapeAcceptsAnyRing ==
    /\ pc = "shape"
    /\ geom' = <<output[1]>>
    /\ pc' = "centroid"
    /\ UNCHANGED <<csv, df, level_dtype, state, district, output, centroid,
                   min_dist, nearest_row, station_data, csv_data, plot_data,
                   exc, page>>

\* geom = shape(...) (line 74).
Shape ==
    /\ pc = "shape"
    /\ IF ShapeRaises(output[1])
       THEN /\ exc' = "A linearring requires at least 4 coordinates."
            /\ pc' = "except"
            /\ geom' = geom
       ELSE /\ geom' = <<output[1]>>
            /\ pc' = "centroid"
            /\ exc' = exc
    /\ UNCHANGED <<csv, df, level_dtype, state, district, output, centroid,
                   min_dist, nearest_row, station_data, csv_data, plot_data, page>>

\* centroid = (geom.centroid.y, geom.centroid.x) (line 75).  The centroid of the
\* empty polygon is the empty point, whose .y raises in one shapely and is NaN
\* in another.
Centroid ==
    /\ pc = "centroid"
    /\ IF geom[1] = <<>>
       THEN \E emptyPointY \in {"raises", "nan"} :
               IF emptyPointY = "raises"
               THEN /\ exc' = "index out of range"
                    /\ pc' = "except"
                    /\ centroid' = centroid
               ELSE /\ centroid' = <<NaN, NaN>>
                    /\ pc' = "scan"
                    /\ exc' = exc
       ELSE /\ centroid' = CentroidLatLon(geom[1])
            /\ pc' = "scan"
            /\ exc' = exc
    /\ UNCHANGED <<csv, df, level_dtype, state, district, output, geom,
                   min_dist, nearest_row, station_data, csv_data, plot_data, page>>

\* The scan loop (lines 78-84).
Scan ==
    /\ pc = "scan"
    /\ min_dist' = ScanFrom(df, centroid, 1, Inf, None)[1]
    /\ nearest_row' = ScanFrom(df, centroid, 1, Inf, None)[2]
    /\ pc' = "report"
    /\ UNCHANGED <<csv, df, level_dtype, state, district, output, geom,
                   centroid, station_data, csv_data, plot_data, exc, page>>

\* if nearest_row is not None: st.success(...) (lines 86-91).
Report ==
    /\ pc = "report"
    /\ page' = IF nearest_row # None
               THEN Append(page,
                        [kind |-> "success",
                         data |-> <<RowAt(df, nearest_row).station_name,
                                    RowAt(df, nearest_row).district_name,
                                    RowAt(df, nearest_row).state_name,
                                    Format2f(min_dist)>>])
               ELSE page
    /\ pc' = "filter"
    /\ UNCHANGED <<csv, df, level_dtype, state, district, output, geom,
                   centroid, min_dist, nearest_row, station_data, csv_data,
                   plot_data, exc>>

\* Filter with sort_values(..., inplace=True) on the dataset itself.
FilterSortsInPlace ==
    /\ pc = "filter"
    /\ nearest_row # None
    /\ \E sorted \in sort_values(df) :
          /\ df' = sorted
          /\ station_data' = drop_columns(StationMask(sorted, RowAt(df, nearest_row)))
          /\ csv_data' = station_data'
    /\ pc' = "aggregate"
    /\ UNCHANGED <<csv, level_dtype, state, district, output, geom, centroid,
                   min_dist, nearest_row, plot_data, exc, page>>

\* station_data = df[...].sort_values("date").drop(...); csv_data =
\* station_data.copy() (lines 94-102).  nearest_row['latitude'] of None is a
\* TypeError.
Filter ==
    /\ pc = "filter"
    /\ IF nearest_row = None
       THEN /\ exc' = "'NoneType' object is not subscriptable"
            /\ pc' = "except"
            /\ UNCHANGED <<station_data, csv_data>>
       ELSE /\ \E sorted \in sort_values(StationMask(df, RowAt(df, nearest_row))) :
                  /\ station_data' = drop_columns(sorted)
                  /\ csv_data' = drop_columns(sorted)
            /\ pc' = "aggregate"
            /\ exc' = exc
    /\ UNCHANGED <<csv, df, level_dtype, state, district, output, geom,
                   centroid, min_dist, nearest_row, plot_data, page>>

\* plot_data = station_data.groupby('date', as_index=False).agg(...) (line 105).
\* The mean of a column that is not numeric raises.
Aggregate ==
    /\ pc = "aggregate"
    /\ IF level_dtype # "float64"
       THEN /\ exc' = "agg function failed [how->mean,dtype->object]"
            /\ pc' = "except"
            /\ plot_data' = plot_data
       ELSE /\ plot_data' = groupby_mean(station_data)
            /\ pc' = "plot"
            /\ exc' = exc
    /\ UNCHANGED <<csv, df, level_dtype, state, district, output, geom,
                   centroid, min_dist, nearest_row, station_data, csv_data, page>>

\* px.line and st.plotly_chart (lines 108-118).
Plot ==
    /\ pc = "plot"
    /\ page' = Append(page, [kind |-> "chart", data |-> plot_data])
    /\ pc' = "download"
    /\ UNCHANGED <<csv, df, level_dtype, state, district, output, geom,
                   centroid, min_dist, nearest_row, station_data, csv_data,
                   plot_data, exc>>

\* csv = csv_data.to_csv(index=False); st.download_button (lines 121-127).
Download ==
    /\ pc = "download"
    /\ page' = Append(page, [kind |-> "download", data |-> to_csv(csv_data)])
    /\ pc' = "done"
    /\ UNCHANGED <<csv, df, level_dtype, state, district, output, geom,
                   centroid, min_dist, nearest_row, station_data, csv_data,
                   plot_data, exc>>

\* except Exception as e: st.error(...) (lines 129-130).
Except ==
    /\ pc = "except"
    /\ page' = Append(page, [kind |-> "error",
                             data |-> "Error reading polygon: " \o exc])
    /\ pc' = "done"
    /\ UNCHANGED <<csv, df, level_dtype, state, district, output, geom,
                   centroid, min_dist, nearest_row, station_data, csv_data,
                   plot_data, exc>>

Interact ==
    \E s \in {"Kerala"}, dn \in {"Idukki", "Kollam"} : Select(s, dn)

DrawPolygon ==
    \E ring \in Drawings : Draw(ring)

Next ==
    \/ Load
    \/ Preamble
    \/ Interact
    \/ DrawPolygon
    \/ Shape
    \/ Centroid
    \/ Scan
    \/ Report
    \/ Filter
    \/ Aggregate
    \/ Plot
    \/ Download
    \/ Except

\* Rows that differ in their coordinates, some without a latitude; the wells
\* at longitude 0 are in Idukki, those at longitude 60 in Kollam.
ScanCells ==
    ({"", "0.0", "60.0"} \X {"0.0"} \X {"Idukki"} \X {"2020-01-01"} \X {"3.0"})
    \cup
    ({"", "0.0", "60.0"} \X {"60.0"} \X {"Kollam"} \X {"2020-01-01"} \X {"3.0"})

\* Rows of one well that differ in date and level, some with a date that does
\* not parse or without a level, and a row of another well.
SeriesCells ==
    ({"0.0"} \X {"0.0"} \X {"Idukki"} \X {"2020-01-01", "2020-01-02", "n/a"}
        \X {"", "3.0", "5.0"})
    \cup
    {<<"0.0", "60.0", "Kollam", "2020-01-01", "3.0">>}

\* Rows some of whose level cells are text.
TextCells ==
    {"0.0"} \X {"0.0"} \X {"Idukki"} \X {"2020-01-01"} \X {"3.0", "dry"}

Init == InitWith(CsvFiles(ScanCells) \cup CsvFiles(SeriesCells) \cup CsvFiles(TextCells))

Spec == Init /\ [][Next]_vars

(***************************************************************************)
(* Vocabulary of the properties.                                           *)
(***************************************************************************)
\* The scan of the current run has finished.
Scanned == centroid # <<>> /\ pc # "scan"

\* The series of the current run have been built (line 102 is passed).
SeriesBuilt ==
    nearest_row # None /\ pc \in {"aggregate", "plot", "download", "except", "done"}

\* The aggregation of the current run has finished (line 105 is passed).
Aggregated ==
    SeriesBuilt /\ (pc \in {"plot", "download"} \/ (pc = "done" /\ exc = ""))

\* The distance from the centroid to row i of the dataset.
Dist(i) == haversine(centroid, <<df[i].latitude, df[i].longitude>>)

Kinds == [i \in DOMAIN page |-> page[i].kind]

\* The drawing of the current run has fewer than 3 coordinates.
FewerThan3 == output # <<>> /\ Len(output[1]) < 3

\* C1: once the scan has finished for a centroid that could be computed, a
\* row is reported, min_dist is its distance, and no row of the dataset is
\* strictly closer to the centroid.
C1_NearestIsClosest ==
    (Scanned /\ NaN \notin Range(centroid)) =>
        /\ nearest_row # None
        /\ min_dist = Dist(nearest_row + 1)
        /\ \A i \in DOMAIN df : Dist(i) = NaN \/ min_dist <= Dist(i)

\* The scan has replaced its minimum at least once: the reported row is not
\* the first, a row is farther, and a row has no latitude.
C1_Witness ==
    /\ pc = "report"
    /\ nearest_row > 0
    /\ \E i \in DOMAIN df : Dist(i) # NaN /\ Dist(i) > min_dist
    /\ \E i \in DOMAIN df : Dist(i) = NaN

\* C2: among the rows at the minimum distance the scan reports the earliest in
\* iteration order; the reported row is a function of the dataset and the
\* centroid alone, so the same query on the unchanged dataset reports it again.
C2_EarliestOfTies ==
    (Scanned /\ nearest_row # None) =>
        nearest_row + 1 =
            CHOOSE i \in DOMAIN df :
                /\ Dist(i) # NaN
                /\ \A j \in DOMAIN df : Dist(j) = NaN \/ Dist(i) <= Dist(j)
                /\ \A j \in DOMAIN df : (j < i /\ Dist(j) # NaN) => Dist(i) < Dist(j)

\* Two wells at different coordinates are at the same, minimum, distance.
C2_Witness ==
    /\ pc = "report"
    /\ \E i, j \in DOMAIN df :
          /\ i < j
          /\ Dist(i) = min_dist
          /\ Dist(j) = min_dist
          /\ <<df[i].latitude, df[i].longitude>> # <<df[j].latitude, df[j].longitude>>
          /\ nearest_row = df[i].index

C4_AllOrNothing ==
    /\ \A i, j \in DOMAIN page :
          (i < j /\ page[i].kind = "success") => page[j].kind # "error"
    /\ (pc = "done" /\ output # <<>>) =>
          Kinds \in {<<"success", "chart", "download">>, <<"error">>}

\* C5 as stated: a row whose date did not parse, or without latitude or
\* longitude, is never the reported row and is in no series.
C5_BadRowsNeverUsed ==
    /\ (Scanned /\ nearest_row # None) =>
          /\ RowAt(df, nearest_row).date # NaT
          /\ RowAt(df, nearest_row).latitude # NaN
          /\ RowAt(df, nearest_row).longitude # NaN
    /\ \A i \in DOMAIN csv_data :
          /\ csv_data[i].date # NaT
          /\ RowAt(df, csv_data[i].index).latitude # NaN
          /\ RowAt(df, csv_data[i].index).longitude # NaN
    /\ \A i \in DOMAIN plot_data : plot_data[i].date # NaT

\* The rows of the dataset at the reported row's coordinates.
StationRows ==
    {i \in DOMAIN df :
        /\ df[i].latitude = RowAt(df, nearest_row).latitude
        /\ df[i].longitude = RowAt(df, nearest_row).longitude}

\* C6: the raw series holds exactly the rows of the dataset at the reported
\* row's coordinates, each once, with its date and its level (a missing level
\* stays missing), duplicate dates kept, in ascending date order (rows without
\* a date last); its length is the number of those rows, and the export is its
\* text, row for row.
C6_RawSeriesIsStationRows ==
    SeriesBuilt =>
        /\ {csv_data[k].index + 1 : k \in DOMAIN csv_data} = StationRows
        /\ Len(csv_data) = Cardinality(StationRows)
        /\ \A k \in DOMAIN csv_data :
              /\ csv_data[k].date = RowAt(df, csv_data[k].index).date
              /\ csv_data[k].currentlevel = RowAt(df, csv_data[k].index).currentlevel
        /\ \A k, l \in DOMAIN csv_data :
              (k < l /\ csv_data[l].date # NaT) =>
                  (csv_data[k].date # NaT /\ csv_data[k].date <= csv_data[l].date)
        /\ station_data = csv_data
        /\ (pc = "done" /\ exc = "") =>
              /\ Len(page[3].data) = Cardinality(StationRows)
              /\ \A k \in DOMAIN csv_data :
                    /\ page[3].data[k].date = FormatDate(csv_data[k].date)
                    /\ page[3].data[k].currentlevel =
                           FormatFloat(csv_data[k].currentlevel)

\* The export of a well with two rows of one date, one of them without a level,
\* from a dataset that holds a row of another well.
C6_Witness ==
    /\ pc = "done"
    /\ exc = ""
    /\ Len(csv_data) = 2
    /\ Len(df) = 3
    /\ csv_data[1].date = csv_data[2].date
    /\ csv_data[1].date # NaT
    /\ \E k \in DOMAIN csv_data : csv_data[k].currentlevel = NaN
    /\ \E k \in DOMAIN csv_data : page[3].data[k].currentlevel = ""

\* The levels that are not missing among the station's rows of date d.
LevelsOn(d) == {i \in StationRows : df[i].date = d /\ df[i].currentlevel # NaN}

\* C7: the aggregated series has one entry per distinct date of the station's
\* rows, in ascending order; its level is the mean of the levels of that date
\* that are not missing, and is missing when all of them are.
C7_AggregatedIsMeanPerDate ==
    Aggregated =>
        /\ {plot_data[k].date : k \in DOMAIN plot_data} =
               {df[i].date : i \in StationRows} \ {NaT}
        /\ \A k, l \in DOMAIN plot_data : k < l => plot_data[k].date < plot_data[l].date
        /\ \A k \in DOMAIN plot_data :
              /\ plot_data[k].currentlevel[2] = Cardinality(LevelsOn(plot_data[k].date))
              /\ plot_data[k].currentlevel[1] =
                     SumOver(LevelsOn(plot_data[k].date),
                             [i \in DOMAIN df |-> df[i].currentlevel])

\* The spec's example: levels 3.0 and 5.0 on 2020-01-01 and a missing level on
\* 2020-01-02 give the mean 8/2 and a missing mean.
C7_Witness ==
    /\ Aggregated
    /\ plot_data = <<[date |-> 20200101, currentlevel |-> <<8, 2>>],
                     [date |-> 20200102, currentlevel |-> <<0, 0>>]>>

\* C8: after loading, no step of any run changes the dataset.
C8_DatasetReadOnly == [][pc # "load" => df' = df]_vars

\* A run has ended whose series is in another order than the dataset's rows,
\* with the dataset as loaded.
C8_Witness ==
    /\ pc = "done"
    /\ exc = ""
    /\ df = load_data(csv)
    /\ \E k, l \in DOMAIN csv_data : k < l /\ csv_data[k].index > csv_data[l].index

\* C9 as stated: a scan that ends with no row ends the run in a "not found"
\* error, with nothing else shown.
C9_NotFoundOutcome ==
    (pc = "done" /\ Scanned /\ nearest_row = None) =>
        page = <<[kind |-> "error", data |-> "not found"]>>

\* C10 as stated: rows of the series with the same date are in the order of
\* the dataset.
C10_StableDateOrder ==
    SeriesBuilt =>
        \A k, l \in DOMAIN csv_data :
            (k < l /\ csv_data[k].date = csv_data[l].date) =>
                csv_data[k].index < csv_data[l].index

====
